---- MODULE Spec2Model ----
(***************************************************************************)
(* Model of the address-mapped bus of src/src/main.rs: MemoryRange, the    *)
(* Bus registry (a BTreeMap keyed by MemoryRange, ordered and compared by  *)
(* base_address only), the Device implementations of Bus and Ram, and the  *)
(* paged sparse store of Ram.                                              *)
(*                                                                         *)
(* A device is a value:                                                    *)
(*   Ram: [kind |-> "Ram", id, sparse_memory_map]  (page_id -> page)       *)
(*   Bus: [kind |-> "Bus", id, devices]            (base -> entry)         *)
(* where an entry is [range |-> MemoryRange, device |-> device] and the    *)
(* id stands for the identity of the Box the device lives in.              *)
(***************************************************************************)
EXTENDS Integers, Sequences, FiniteSets, TLC

\* ---------------------------------------------------------------- bounds
MaxOps == 3

\* ------------------------------------------------------- program constants
PAGE_SIZE == 4096
PAGE_OFFSET_BITS == 12

\* ------------------------------------------------------------ input sets
BusNames == {"P", "B"}
Bases == {0, 65536}
Sizes == {0, 131072}
Addrs == {65536, 65537, 196606, 196608}
Lens == {3, 4097}
Vals == {1}

\* ------------------------------------------------------------ arithmetic
RECURSIVE Pow2(_)
Pow2(n) == IF n = 0 THEN 1 ELSE 2 * Pow2(n - 1)

Shl(a, n) == a * Pow2(n)

Shr(a, n) == a \div Pow2(n)

RECURSIVE BitAnd(_, _)
BitAnd(a, b) ==
    IF a = 0 \/ b = 0 THEN 0
    ELSE (a % 2) * (b % 2) + 2 * BitAnd(a \div 2, b \div 2)

SetMax(S) == CHOOSE x \in S : \A y \in S : y <= x

\* The caller's buffer of a write: len bytes v, v+1, ...
Fill(len, v) == [i \in 1..len |-> (v + i - 1) % 256]

\* ----------------------------------------------------------- MemoryRange
MemoryRange(base_address, size) == [base_address |-> base_address, size |-> size]

contains(range, addr) ==
    addr >= range.base_address /\ addr < range.base_address + range.size

\* ---------------------------------------------------------------- Vec<u8>
\* A byte vector is held as its length and its nonzero bytes (index -> byte);
\* every index below len that nz does not list holds 0.
EmptyMap == [k \in {} |-> 0]

\* vec![0; n]
ZeroVec(n) == [len |-> n, nz |-> EmptyMap]

VecGet(v, i) == IF i \in DOMAIN v.nz THEN v.nz[i] ELSE 0

\* v[at .. at + Len(buf)].copy_from_slice(buf)
VecCopyIn(v, at, buf) ==
    LET kept == {j \in DOMAIN v.nz : j < at \/ j >= at + Len(buf)}
        set  == {at + k - 1 : k \in {k \in 1..Len(buf) : buf[k] # 0}}
    IN  [v EXCEPT !.nz = [i \in kept \cup set |->
                            IF i \in set THEN buf[i - at + 1] ELSE v.nz[i]]]

\* buf.copy_from_slice(&v[at .. at + len])
VecCopyOut(v, at, len) == [i \in 1..len |-> VecGet(v, at + i - 1)]

\* ------------------------------------------------------------------- u64
\* A u64 as four 16-bit limbs, least significant first.
Limb == Pow2(16)

\* 0, 0x10000, 2^63, 0xFFFF_FFFF_FFFF_0000 and u64::MAX
U64Zero == <<0, 0, 0, 0>>
U64Page == <<0, 1, 0, 0>>
U64Half == <<0, 0, 0, 32768>>
U64Top  == <<0, 65535, 65535, 65535>>
U64Max  == <<65535, 65535, 65535, 65535>>

U64Bases == {U64Zero, U64Page, U64Half, U64Top}
U64Sizes == {U64Zero, U64Page, U64Half, U64Max}
U64Addrs == {U64Zero, U64Page, U64Half, U64Top, U64Max}
Builds == {"debug", "release"}

\* x < y and x <= y on u64
Less(x, y) == \E i \in 1..4 : x[i] < y[i] /\ \A j \in (i + 1)..4 : x[j] = y[j]

Leq(x, y) == x = y \/ Less(x, y)

\* x + y on u64: the sum modulo 2^64 and whether it left the type
overflowing_add(x, y) ==
    LET s1 == x[1] + y[1]
        s2 == x[2] + y[2] + s1 \div Limb
        s3 == x[3] + y[3] + s2 \div Limb
        s4 == x[4] + y[4] + s3 \div Limb
    IN  [sum      |-> <<s1 % Limb, s2 % Limb, s3 % Limb, s4 % Limb>>,
         overflow |-> s4 \div Limb > 0]

\* MemoryRange::contains on u64. && evaluates the sum only when
\* addr >= base_address; a sum that leaves u64 panics in a build with
\* overflow checks (debug) and wraps in one without (release).
contains_u64(range, addr, build) ==
    IF ~Leq(range.base_address, addr)
    THEN [res |-> "Ok", value |-> FALSE]
    ELSE LET end == overflowing_add(range.base_address, range.size)
         IN  IF end.overflow /\ build = "debug"
             THEN [res |-> "Panic", value |-> FALSE]
             ELSE [res |-> "Ok", value |-> Less(addr, end.sum)]

\* ------------------------------------------------------------------- Ram
\* A Ram built with its first page already in place.
RamDefault_eager(id) ==
    [kind |-> "Ram", id |-> id, sparse_memory_map |-> [q \in {0} |-> ZeroVec(PAGE_SIZE)]]

RamDefault(id) == [kind |-> "Ram", id |-> id, sparse_memory_map |-> EmptyMap]

\* The page id taken with the shift of the offset mask, one bit short.
page_id_of_short(ptr) == Shr(ptr, PAGE_OFFSET_BITS - 1)

\* ptr >> Self::PAGE_OFFSET_BITS
page_id_of(ptr) == Shr(ptr, PAGE_OFFSET_BITS)

\* `-` binds tighter than `<<` in Rust: the mask is 1 << (PAGE_OFFSET_BITS - 1).
page_offset_of(ptr) == BitAnd(ptr, Shl(1, PAGE_OFFSET_BITS - 1))

\* entry(page_id).or_insert(vec![0; PAGE_SIZE])
or_insert(map, page_id) ==
    IF page_id \in DOMAIN map THEN map
    ELSE [q \in DOMAIN map \cup {page_id} |->
            IF q = page_id THEN ZeroVec(PAGE_SIZE) ELSE map[q]]

\* The slice [page_offset .. page_offset + len] of the page is taken after
\* the page is inserted; when it leaves the page, the index panics.
page_slice(ram, ptr, len) ==
    LET pid == page_id_of(ptr)
        po  == page_offset_of(ptr)
        map == or_insert(ram.sparse_memory_map, pid)
    IN  [map         |-> map,
         page_id     |-> pid,
         page_offset |-> po,
         panic       |-> po + len > map[pid].len]

\* Ram::read reporting a slice that leaves the page as InvalidAccess, the
\* page it looked up already inserted.
RamRead_late_check(ram, ptr, len) ==
    LET ps  == page_slice(ram, ptr, len)
        new == [ram EXCEPT !.sparse_memory_map = ps.map]
    IN  IF ps.panic
        THEN [res |-> "InvalidAccess", buf |-> <<>>, dev |-> new]
        ELSE [res |-> "Ok",
              buf |-> VecCopyOut(ps.map[ps.page_id], ps.page_offset, len),
              dev |-> new]

\* Ram::read clearing the bytes it hands out.
RamRead_destructive(ram, ptr, len) ==
    LET ps  == page_slice(ram, ptr, len)
        new == [ram EXCEPT !.sparse_memory_map = ps.map]
    IN  IF ps.panic
        THEN [res |-> "Panic", buf |-> <<>>, dev |-> new]
        ELSE [res |-> "Ok",
              buf |-> VecCopyOut(ps.map[ps.page_id], ps.page_offset, len),
              dev |-> [new EXCEPT !.sparse_memory_map[ps.page_id] =
                          VecCopyIn(ps.map[ps.page_id], ps.page_offset,
                                    [i \in 1..len |-> 0])]]

RamRead(ram, ptr, len) ==
    LET ps  == page_slice(ram, ptr, len)
        new == [ram EXCEPT !.sparse_memory_map = ps.map]
    IN  IF ps.panic
        THEN [res |-> "Panic", buf |-> <<>>, dev |-> new]
        ELSE [res |-> "Ok",
              buf |-> VecCopyOut(ps.map[ps.page_id], ps.page_offset, len),
              dev |-> new]

RamWrite(ram, ptr, buf) ==
    LET ps  == page_slice(ram, ptr, Len(buf))
        new == [ram EXCEPT !.sparse_memory_map = ps.map]
    IN  IF ps.panic
        THEN [res |-> "Panic", buf |-> <<>>, dev |-> new]
        ELSE [res |-> "Ok", buf |-> <<>>,
              dev |-> [new EXCEPT !.sparse_memory_map[ps.page_id] =
                          VecCopyIn(ps.map[ps.page_id], ps.page_offset, buf)]]

\* ------------------------------------------------------------------- Bus
BusNew(id) == [kind |-> "Bus", id |-> id, devices |-> EmptyMap]

NoKey == -1

\* range_mut(..=MemoryRange{base_address: addr, ..}): the keys that compare <= addr
range_to_inclusive(devices, addr) == {b \in DOMAIN devices : b <= addr}

\* .rev().find(|(range, _)| range.contains(addr)): first hit, largest key first
RECURSIVE rev_find(_, _, _)
rev_find(devices, keys, addr) ==
    IF keys = {} THEN NoKey
    ELSE LET b == SetMax(keys)
         IN  IF contains(devices[b].range, addr) THEN b
             ELSE rev_find(devices, keys \ {b}, addr)

\* get_device taking the nearest range at or below addr unchecked (.next()
\* in place of .find(contains)).
get_device_unchecked(bus, addr) ==
    IF range_to_inclusive(bus.devices, addr) = {} THEN NoKey
    ELSE SetMax(range_to_inclusive(bus.devices, addr))

\* get_device looking at the nearest range at or below addr only, the scan
\* of the lower ranges optimised away.
get_device_nearest(bus, addr) ==
    LET keys == range_to_inclusive(bus.devices, addr)
    IN  IF keys # {} /\ contains(bus.devices[SetMax(keys)].range, addr)
        THEN SetMax(keys)
        ELSE NoKey

\* The key of the entry get_device returns, NoKey for Err(InvalidAccess)
get_device(bus, addr) ==
    rev_find(bus.devices, range_to_inclusive(bus.devices, addr), addr)

\* register rebuilding the map around the new pair: the other entries, and
\* the devices they own, are dropped.
register_rebuilding(bus, device, base_address, size) ==
    [bus EXCEPT !.devices =
        [b \in {base_address} |->
            [range |-> MemoryRange(base_address, size), device |-> device]]]

\* BTreeMap::insert: an equal key (same base_address) keeps the stored key
\* and replaces the value only; otherwise the pair is added.
register(bus, device, base_address, size) ==
    IF base_address \in DOMAIN bus.devices
    THEN [bus EXCEPT !.devices[base_address].device = device]
    ELSE [bus EXCEPT !.devices =
            [b \in DOMAIN bus.devices \cup {base_address} |->
                IF b = base_address
                THEN [range |-> MemoryRange(base_address, size), device |-> device]
                ELSE bus.devices[b]]]

\* The address handed on as it came, the base not taken off.
local_offset_untranslated(ptr, range) == ptr

\* ptr - memory_range.base_address
local_offset(ptr, range) == ptr - range.base_address

Hop(bus, k, ptr) ==
    [bus    |-> bus.id,
     range  |-> bus.devices[k].range,
     dev    |-> bus.devices[k].device.id,
     kind   |-> bus.devices[k].device.kind,
     offset |-> local_offset(ptr, bus.devices[k].range)]

\* Device::read / Device::write, by dynamic dispatch on the device;
\* path lists the delegations made, outermost first.
RECURSIVE DevRead(_, _, _)
DevRead(dev, ptr, len) ==
    IF dev.kind = "Ram"
    THEN [path |-> <<>>] @@ RamRead(dev, ptr, len)
    ELSE LET k == get_device(dev, ptr)
         IN  IF k = NoKey
             THEN [res |-> "InvalidAccess", buf |-> <<>>, dev |-> dev, path |-> <<>>]
             ELSE LET r == DevRead(dev.devices[k].device,
                                   local_offset(ptr, dev.devices[k].range), len)
                  IN  [res  |-> r.res,
                       buf  |-> r.buf,
                       dev  |-> [dev EXCEPT !.devices[k].device = r.dev],
                       path |-> <<Hop(dev, k, ptr)>> \o r.path]

RECURSIVE DevWrite(_, _, _)
DevWrite(dev, ptr, buf) ==
    IF dev.kind = "Ram"
    THEN [path |-> <<>>] @@ RamWrite(dev, ptr, buf)
    ELSE LET k == get_device(dev, ptr)
         IN  IF k = NoKey
             THEN [res |-> "InvalidAccess", buf |-> <<>>, dev |-> dev, path |-> <<>>]
             ELSE LET r == DevWrite(dev.devices[k].device,
                                    local_offset(ptr, dev.devices[k].range), buf)
                  IN  [res  |-> r.res,
                       buf  |-> r.buf,
                       dev  |-> [dev EXCEPT !.devices[k].device = r.dev],
                       path |-> <<Hop(dev, k, ptr)>> \o r.path]

\* ----------------------------------------------------------------- state
VARIABLES
    bus,        \* the buses the program holds: name -> Bus
    pre,        \* bus before the last call
    last,       \* the last call: its arguments (a write's buffer is
                \* Fill(len, val)) and what it returned
    prev,       \* the call before it
    nextId,     \* identity of the next device boxed
    ops,        \* calls made
    panicked,   \* the program aborted in an index panic
    written,    \* <<ram id, offset, len>> of every write a Ram completed
    registered, \* <<bus id, base>> -> the latest register call made there
    touched,    \* <<ram id, offset>> of the reads and writes a Ram completed
    probe       \* the last call of MemoryRange::contains made on its own

vars == <<bus, pre, last, prev, nextId, ops, panicked, written, registered, touched, probe>>

NoCall == [op |-> "none"]

Init ==
    /\ bus = [n \in BusNames |-> BusNew(IF n = "P" THEN 1 ELSE 2)]
    /\ pre = bus
    /\ last = NoCall
    /\ prev = NoCall
    /\ nextId = 3
    /\ ops = 0
    /\ panicked = FALSE
    /\ written = {}
    /\ registered = EmptyMap
    /\ touched = {}
    /\ probe = NoCall

\* What the history variables record of a register call on bus[n].
Registered(n, device_id, base_address, size) ==
    LET at == <<bus[n].id, base_address>>
    IN  /\ pre' = bus
        /\ prev' = last
        /\ last' = [op |-> "register", on |-> n, bus |-> bus[n].id,
                    base_address |-> base_address, size |-> size,
                    device |-> device_id]
        /\ registered' =
              [k \in DOMAIN registered \cup {at} |->
                 IF k = at
                 THEN [device   |-> device_id,
                       size     |-> size,
                       collided |-> /\ at \in DOMAIN registered
                                    /\ \/ registered[at].collided
                                       \/ registered[at].size # size]
                 ELSE registered[k]]
        /\ nextId' = nextId + 1
        /\ ops' = ops + 1
        /\ UNCHANGED <<panicked, written, touched, probe>>

\* bus[n].register(Box::new(Ram::default()), base_address, size)
RegisterRam(n, base_address, size) ==
    /\ ~panicked
    /\ ops < MaxOps
    /\ bus' = [bus EXCEPT ![n] = register(bus[n], RamDefault(nextId), base_address, size)]
    /\ Registered(n, nextId, base_address, size)

\* bus[n].register(Box::new(bus[c]), base_address, size): the child bus is
\* moved into its parent; the name it had is rebound to a new empty Bus.
\* The program populates B, nests it in P, and reads and writes P.
RegisterBus(n, c, base_address, size) ==
    /\ ~panicked
    /\ ops < MaxOps
    /\ n # c
    /\ bus' = [bus EXCEPT ![n] = register(bus[n], bus[c], base_address, size),
                          ![c] = BusNew(nextId)]
    /\ Registered(n, bus[c].id, base_address, size)

\* What the history variables record of a read or write on bus[n].
Accessed(n, op, ptr, len, val, r) ==
    /\ bus' = [bus EXCEPT ![n] = r.dev]
    /\ pre' = bus
    /\ prev' = last
    /\ last' = [op |-> op, on |-> n, bus |-> bus[n].id, ptr |-> ptr, len |-> len,
                val |-> val, res |-> r.res, buf |-> r.buf, path |-> r.path]
    /\ panicked' = (r.res = "Panic")
    /\ written' =
          IF op = "write" /\ r.res = "Ok"
          THEN written \cup {<<r.path[Len(r.path)].dev, r.path[Len(r.path)].offset, len>>}
          ELSE written
    /\ touched' =
          IF r.res = "Ok"
          THEN touched \cup {<<r.path[Len(r.path)].dev, r.path[Len(r.path)].offset>>}
          ELSE touched
    /\ ops' = ops + 1
    /\ UNCHANGED <<nextId, registered, probe>>

\* bus[n].read(ptr, &mut [0; len])
Read(n, ptr, len) ==
    /\ ~panicked
    /\ ops < MaxOps
    /\ Accessed(n, "read", ptr, len, 0, DevRead(bus[n], ptr, len))

\* bus[n].write(ptr, &buf), the buffer being Fill(len, val)
Write(n, ptr, len, val) ==
    /\ ~panicked
    /\ ops < MaxOps
    /\ Accessed(n, "write", ptr, len, val, DevWrite(bus[n], ptr, Fill(len, val)))

Next ==
    \/ \E n \in BusNames, b \in Bases, s \in Sizes : RegisterRam(n, b, s)
    \/ \E b \in Bases, s \in Sizes : RegisterBus("P", "B", b, s)
    \/ \E a \in Addrs, l \in Lens : Read("P", a, l)
    \/ \E a \in Addrs, l \in Lens, v \in Vals : Write("P", a, l, v)

Spec == Init /\ [][Next]_vars

\* MemoryRange { base_address, size }.contains(addr), in either build
Contains(base_address, size, addr, build) ==
    /\ probe' = [op    |-> "contains",
                 range |-> MemoryRange(base_address, size),
                 addr  |-> addr,
                 build |-> build]
                @@ contains_u64(MemoryRange(base_address, size), addr, build)
    /\ UNCHANGED <<bus, pre, last, prev, nextId, ops, panicked, written,
                   registered, touched>>

NextContains ==
    \E b \in U64Bases, s \in U64Sizes, a \in U64Addrs, m \in Builds :
        Contains(b, s, a, m)

SpecContains == Init /\ [][NextContains]_vars

\* ------------------------------------------------------ reading the state
IsAccess(call) == call.op \in {"read", "write"}

\* The call was delegated down to a Ram: the last hop of its path.
HitRam(call) ==
    /\ IsAccess(call)
    /\ Len(call.path) > 0
    /\ call.path[Len(call.path)].kind = "Ram"

Leaf(call) == call.path[Len(call.path)]

RECURSIVE RamsOf(_)
RamsOf(dev) ==
    IF dev.kind = "Ram" THEN {dev}
    ELSE UNION {RamsOf(dev.devices[b].device) : b \in DOMAIN dev.devices}

RamsIn(bs) == UNION {RamsOf(bs[n]) : n \in BusNames}

\* <<ram id, page id, page>> of every allocated page
AllPages(bs) ==
    UNION {{<<r.id, q, r.sparse_memory_map[q]>> : q \in DOMAIN r.sparse_memory_map} :
             r \in RamsIn(bs)}

\* base <= a < base + size, in the integers
InRange(range, a) ==
    range.base_address <= a /\ a < range.base_address + range.size

\* The top-level entry of the bus as it was before the call that get_device
\* picks for the call's address: NoKey when it picks none.
PickedKey(call) == get_device(pre[call.on], call.ptr)

PickedEntry(call) == pre[call.on].devices[PickedKey(call)]

\* ----------------------------------------------------------------- claims

\* C1 (round trip): on a bus with a Ram registered at (base, size), for addr
\* and addr + len inside [base, base + size), write(addr, bytes) succeeds and
\* the read(addr, len) that follows it succeeds and returns exactly bytes.
C1Case(call) ==
    /\ IsAccess(call)
    /\ PickedKey(call) # NoKey
    /\ PickedEntry(call).device.kind = "Ram"
    /\ InRange(PickedEntry(call).range, call.ptr)
    /\ InRange(PickedEntry(call).range, call.ptr + call.len)

C1_RoundTrip ==
    /\ (last.op = "write" /\ C1Case(last)) => last.res = "Ok"
    /\ (/\ last.op = "read" /\ C1Case(last)
        /\ prev.op = "write" /\ prev.res = "Ok"
        /\ prev.bus = last.bus /\ prev.ptr = last.ptr /\ prev.len = last.len)
       => (last.res = "Ok" /\ last.buf = Fill(prev.len, prev.val))

\* C2 (containment): for every registered range and every address inside it,
\* get_device returns that very entry, and a read at the address is forwarded
\* to the entry's device at local offset address - base.
C2_Containment ==
    \A n \in BusNames : \A b \in DOMAIN bus[n].devices : \A a \in Addrs :
        InRange(bus[n].devices[b].range, a) =>
            /\ get_device(bus[n], a) = b
            /\ LET r == DevRead(bus[n], a, 1)
               IN  /\ Len(r.path) > 0
                   /\ r.path[1].dev = bus[n].devices[b].device.id
                   /\ r.path[1].offset = a - b

\* C3 (out of range): a read or write of an address that no registered range
\* of the bus contains returns InvalidAccess and leaves every device as it was.
Uncovered(call) ==
    /\ IsAccess(call)
    /\ \A b \in DOMAIN pre[call.on].devices :
          ~InRange(pre[call.on].devices[b].range, call.ptr)

C3_OutOfRange ==
    Uncovered(last) => (last.res = "InvalidAccess" /\ bus = pre)

\* C3 happens: a write past the end of a registered, non-empty range fails.
C3_Witness ==
    /\ last.op = "write"
    /\ Uncovered(last)
    /\ \E b \in DOMAIN pre[last.on].devices :
          /\ pre[last.on].devices[b].range.size > 0
          /\ last.ptr = b + pre[last.on].devices[b].range.size
    /\ last.res = "InvalidAccess"

\* C4 (re-registration): after register(d1, B, S1) and then register(d2, B, S2)
\* on the same bus with S1 # S2, the entry at base B is (MemoryRange{B, S2}, d2).
C4Case ==
    /\ last.op = "register" /\ prev.op = "register"
    /\ prev.bus = last.bus
    /\ prev.base_address = last.base_address
    /\ prev.size # last.size

C4_ReRegistration ==
    C4Case =>
        LET e == bus[last.on].devices[last.base_address]
        IN  /\ e.device.id = last.device
            /\ e.range = MemoryRange(last.base_address, last.size)

\* C5 (same-base collision): once two devices were registered at one base of
\* a bus with different sizes, every read or write of that bus at the base
\* address is delegated to the device registered there last.
C5Case ==
    /\ IsAccess(last)
    /\ <<last.bus, last.ptr>> \in DOMAIN registered
    /\ registered[<<last.bus, last.ptr>>].collided

C5_SameBaseCollision ==
    C5Case =>
        /\ Len(last.path) > 0
        /\ last.path[1].dev = registered[<<last.bus, last.ptr>>].device

\* C6 (nesting): when the range (X, S) of P holds a bus B and no other range
\* of P contains X + k, 0 <= k < S, a read or write of P at X + k returns
\* what the same read or write of B at k returns and leaves B as that leaves it.
NestedAt(call, X) ==
    /\ IsAccess(call)
    /\ X \in DOMAIN pre[call.on].devices
    /\ pre[call.on].devices[X].device.kind = "Bus"
    /\ InRange(pre[call.on].devices[X].range, call.ptr)
    /\ \A b \in DOMAIN pre[call.on].devices \ {X} :
          ~InRange(pre[call.on].devices[b].range, call.ptr)

Direct(call, B, k) ==
    IF call.op = "read" THEN DevRead(B, k, call.len)
    ELSE DevWrite(B, k, Fill(call.len, call.val))

C6_Nesting ==
    \A X \in Bases :
        NestedAt(last, X) =>
            LET d == Direct(last, pre[last.on].devices[X].device, last.ptr - X)
            IN  /\ last.res = d.res
                /\ last.buf = d.buf
                /\ bus[last.on].devices[X].device = d.dev
                /\ \A b \in DOMAIN pre[last.on].devices \ {X} :
                      bus[last.on].devices[b] = pre[last.on].devices[b]

\* C6 happens: a write of P went through a nested bus at a base other than 0
\* into a Ram of that bus and succeeded.
C6_Witness ==
    \E X \in Bases \ {0} :
        /\ NestedAt(last, X)
        /\ last.op = "write" /\ last.res = "Ok"
        /\ Len(last.path) = 2
        /\ last.path[2].kind = "Ram"

\* C7 (zero fill): a read of a Ram returns 0 for every byte offset that no
\* completed write of that Ram covered.
Covered(ram_id, o) ==
    \E w \in written : w[1] = ram_id /\ w[2] <= o /\ o < w[2] + w[3]

C7_ZeroFill ==
    (last.op = "read" /\ HitRam(last) /\ last.res = "Ok") =>
        \A i \in 1..last.len :
            ~Covered(Leaf(last).dev, Leaf(last).offset + i - 1) => last.buf[i] = 0

\* C8 (bounds): a read or write delegated to a Ram registered with size S at
\* an offset with offset + len > S returns InvalidAccess and changes nothing.
C8_Bounds ==
    (HitRam(last) /\ Leaf(last).offset + last.len > Leaf(last).range.size) =>
        (last.res = "InvalidAccess" /\ bus = pre)

\* The byte of a Ram at a byte offset: page offset >> 12, index offset & 0xFFF
ByteAt(ram, o) ==
    IF o \div 4096 \in DOMAIN ram.sparse_memory_map
    THEN VecGet(ram.sparse_memory_map[o \div 4096], o % 4096)
    ELSE 0

RamWithId(bs, id) == CHOOSE r \in RamsIn(bs) : r.id = id

\* The offsets of a Ram that hold a nonzero byte
NonZero(ram) ==
    UNION {{q * 4096 + j : j \in DOMAIN ram.sparse_memory_map[q].nz} :
             q \in DOMAIN ram.sparse_memory_map}

\* The call did, across the pages it spans, what a read or write of
\* [offset, offset + len) is to do.
CarriedOut(call) ==
    LET id  == Leaf(call).dev
        o   == Leaf(call).offset
        old == RamWithId(pre, id)
        new == RamWithId(bus, id)
    IN  /\ call.res = "Ok"
        /\ call.op = "read" =>
              \A i \in 1..call.len : call.buf[i] = ByteAt(old, o + i - 1)
        /\ call.op = "write" =>
              /\ \A i \in 1..call.len :
                    ByteAt(new, o + i - 1) = Fill(call.len, call.val)[i]
              /\ \A x \in NonZero(old) \cup NonZero(new) :
                    (x < o \/ x >= o + call.len) => ByteAt(new, x) = ByteAt(old, x)

\* C9 (page crossing): a Ram read or write with (offset & 0xFFF) + len >
\* PAGE_SIZE is rejected with an error, storage unchanged, or carried out
\* across the two pages; it does not abort or touch other locations.
C9Case == HitRam(last) /\ (Leaf(last).offset % 4096) + last.len > 4096

C9_PageCrossing ==
    C9Case =>
        \/ (last.res = "InvalidAccess" /\ bus = pre)
        \/ CarriedOut(last)

\* C10 (page isolation): a Ram read or write at an offset of page
\* p = offset >> 12 allocates and changes no page other than page p of that Ram.
OtherPages(bs, ram_id, p) ==
    {x \in AllPages(bs) : ~(x[1] = ram_id /\ x[2] = p)}

C10_PageIsolation ==
    HitRam(last) =>
        OtherPages(bus, Leaf(last).dev, Leaf(last).offset \div 4096)
            = OtherPages(pre, Leaf(last).dev, Leaf(last).offset \div 4096)

\* C10 happens: a write completed in one page of a Ram that already held
\* another page.
C10_Witness ==
    /\ last.op = "write" /\ HitRam(last) /\ last.res = "Ok"
    /\ \E x \in AllPages(pre) :
          x[1] = Leaf(last).dev /\ x[2] # Leaf(last).offset \div 4096
    /\ \E x \in AllPages(bus) :
          /\ x[1] = Leaf(last).dev /\ x[2] = Leaf(last).offset \div 4096
          /\ x[3].nz # EmptyMap

\* The registry of a bus, nested registries included: base -> the range
\* stored, the device it maps to, and that device's registry if it is a bus.
RECURSIVE RegistryOf(_)
RegistryOf(dev) ==
    IF dev.kind = "Ram" THEN EmptyMap
    ELSE [b \in DOMAIN dev.devices |->
            [range  |-> dev.devices[b].range,
             device |-> dev.devices[b].device.id,
             inner  |-> RegistryOf(dev.devices[b].device)]]

\* The ids of the Rams a register call dropped: those of the device that
\* the bus held at the base before the call.
DroppedRams(call) ==
    IF call.base_address \in DOMAIN pre[call.on].devices
    THEN {r.id : r \in RamsOf(pre[call.on].devices[call.base_address].device)}
    ELSE {}

\* C11 (registry frame): a read or write of a bus, failing or not, leaves the
\* registry of every bus as it was; a register call changes no stored byte and
\* no page of any device, apart from dropping the device it replaces.
C11_RegistryFrame ==
    /\ IsAccess(last) =>
          \A n \in BusNames : RegistryOf(bus[n]) = RegistryOf(pre[n])
    /\ last.op = "register" =>
          AllPages(bus) = {x \in AllPages(pre) : x[1] \notin DroppedRams(last)}

\* C11 happens: a write changed the storage of a bus that holds two ranges.
C11_Witness ==
    /\ last.op = "write" /\ last.res = "Ok"
    /\ bus # pre
    /\ Cardinality(DOMAIN bus[last.on].devices) = 2

\* The bases of the ranges of a bus that contain an address
Containing(b, a) == {k \in DOMAIN b.devices : InRange(b.devices[k].range, a)}

\* C12 (overlap tie-break): for every registry, overlapping ranges included,
\* and every address, get_device returns the range with the largest base among
\* all the ranges that contain the address, and InvalidAccess iff none does.
C12_TieBreak ==
    \A n \in BusNames : \A a \in Addrs :
        LET c == Containing(bus[n], a)
            k == get_device(bus[n], a)
        IN  /\ (k = NoKey) <=> (c = {})
            /\ c # {} => (k \in c /\ \A j \in c : j <= k)

\* C12 happens: the nearest range at or below an address does not contain it
\* and a lower range does, and a bus holds two ranges that share an address.
C12_Witness ==
    \E n \in BusNames : \E a \in Addrs :
        /\ \E k \in DOMAIN bus[n].devices :
              k <= a /\ k \notin Containing(bus[n], a) /\ Containing(bus[n], a) # {}
        /\ \E m \in BusNames : \E x \in Addrs : Cardinality(Containing(bus[m], x)) = 2

\* The access lies inside one page: (offset & 0xFFF) + len <= PAGE_SIZE
InPage(o, len) == (o % 4096) + len <= 4096

\* Two writes to a Ram, at offsets a and b, and the two reads that follow
TwoWrites(ram, a, x, b, y) ==
    LET w1 == RamWrite(ram, a, x)
        w2 == RamWrite(w1.dev, b, y)
        r1 == RamRead(w2.dev, a, Len(x))
        r2 == RamRead(r1.dev, b, Len(y))
    IN  /\ w1.res = "Ok" /\ w2.res = "Ok"
        /\ r1.res = "Ok" /\ r1.buf = x
        /\ r2.res = "Ok" /\ r2.buf = y

\* C13 (disjoint writes): a completed write inside one page changes exactly
\* the bytes at offsets [offset, offset + len) of the Ram and no other byte;
\* and on every Ram, two writes to disjoint intervals, in one page (0 and 4)
\* or in two (0 and 4096), are each read back as written.
C13_DisjointWrites ==
    /\ (last.op = "write" /\ HitRam(last) /\ last.res = "Ok"
          /\ InPage(Leaf(last).offset, last.len)) =>
            LET o   == Leaf(last).offset
                old == RamWithId(pre, Leaf(last).dev)
                new == RamWithId(bus, Leaf(last).dev)
            IN  /\ \A i \in 1..last.len :
                      ByteAt(new, o + i - 1) = Fill(last.len, last.val)[i]
                /\ \A x \in NonZero(old) \cup NonZero(new) :
                      (x < o \/ x >= o + last.len) => ByteAt(new, x) = ByteAt(old, x)
    /\ \A r \in RamsIn(bus) :
          /\ TwoWrites(r, 0, Fill(3, 1), 4, Fill(3, 5))
          /\ TwoWrites(r, 0, Fill(3, 1), PAGE_SIZE, Fill(3, 5))

\* C14 (page addressing): for a Ram access with (offset & 0xFFF) + len <=
\* PAGE_SIZE, page_slice selects page_id = offset >> 12 and page_offset =
\* offset & 0xFFF, and the slice [page_offset, page_offset + len) is taken
\* without a panic.
C14_PageAddressing ==
    (HitRam(last) /\ InPage(Leaf(last).offset, last.len)) =>
        LET ps == page_slice(RamWithId(pre, Leaf(last).dev), Leaf(last).offset, last.len)
        IN  /\ ps.page_id = Leaf(last).offset \div 4096
            /\ ps.page_offset = Leaf(last).offset % 4096
            /\ ~ps.panic
            /\ last.res = "Ok"

\* The device the first hop of the call's path leads to, and, when it is a
\* Bus, the outcome of the call as that bus alone gives it.
InnerBus(call) == pre[call.on].devices[call.path[1].range.base_address].device

InnerOutcome(call) ==
    IF call.op = "read"
    THEN DevRead(InnerBus(call), call.path[1].offset, call.len)
    ELSE DevWrite(InnerBus(call), call.path[1].offset, Fill(call.len, call.val))

\* C15 (failure atomicity): a read or write that returns InvalidAccess, from
\* the top-level bus or from a nested one, leaves every device, byte and
\* page as it was; and the result of a nested bus, InvalidAccess included,
\* is the result the caller gets.
C15_FailureAtomicity ==
    /\ (IsAccess(last) /\ last.res = "InvalidAccess") => bus = pre
    /\ (IsAccess(last) /\ Len(last.path) > 0 /\ last.path[1].kind = "Bus") =>
          last.res = InnerOutcome(last).res

\* C15 happens: a nested bus that holds a device rejected the address and
\* the caller got InvalidAccess; and a top-level bus that holds an allocated
\* page rejected an address.
C15_Witness ==
    /\ IsAccess(last) /\ last.res = "InvalidAccess"
    /\ Len(last.path) = 1 /\ last.path[1].kind = "Bus"
    /\ DOMAIN InnerBus(last).devices # {}

C15_WitnessPages ==
    /\ IsAccess(last) /\ last.res = "InvalidAccess"
    /\ AllPages(bus) # {}

\* Two ranges share an address
Overlap(r1, r2) ==
    LET lo == IF r1.base_address > r2.base_address
              THEN r1.base_address ELSE r2.base_address
    IN  lo < r1.base_address + r1.size /\ lo < r2.base_address + r2.size

\* C16 (non-overlap): after any sequence of register calls the ranges of a
\* bus are pairwise non-overlapping: no address lies in two of them.
C16_NonOverlap ==
    \A n \in BusNames : \A j, k \in DOMAIN bus[n].devices :
        j # k => ~Overlap(bus[n].devices[j].range, bus[n].devices[k].range)

\* C17 (lazy allocation): while the program runs, the page ids allocated in
\* a Ram are exactly offset >> 12 over the offsets of the reads and writes
\* that Ram completed, whatever the size of its range (a Ram not yet touched
\* holds no page), and every allocated page is PAGE_SIZE = 4096 bytes long.
C17_LazyAllocation ==
    ~panicked =>
        \A r \in RamsIn(bus) :
            /\ DOMAIN r.sparse_memory_map =
                  {t[2] \div 4096 : t \in {u \in touched : u[1] = r.id}}
            /\ \A q \in DOMAIN r.sparse_memory_map : r.sparse_memory_map[q].len = 4096

\* C17 happens: a Ram in a range of 131072 bytes holds two pages, those its
\* accesses touched, and no more.
C17_Witness ==
    /\ ~panicked
    /\ \E n \in BusNames : \E k \in DOMAIN bus[n].devices :
          /\ bus[n].devices[k].range.size = 131072
          /\ bus[n].devices[k].device.kind = "Ram"
          /\ Cardinality(DOMAIN bus[n].devices[k].device.sparse_memory_map) = 2

\* C19 (reads keep the content): after a completed read, one that allocated
\* a page included, every read of the bus returns what it would have returned
\* before it and every byte of every Ram is as it was; so a read repeated
\* with no call in between returns the same bytes.
C19_ReadKeepsContent ==
    /\ (last.op = "read" /\ last.res = "Ok") =>
          /\ \A a \in Addrs : \A l \in Lens :
                LET now  == DevRead(bus[last.on], a, l)
                    then == DevRead(pre[last.on], a, l)
                IN  now.res = then.res /\ now.buf = then.buf
          /\ \A r \in RamsIn(bus) :
                \A x \in NonZero(r) \cup NonZero(RamWithId(pre, r.id)) :
                    ByteAt(r, x) = ByteAt(RamWithId(pre, r.id), x)
    /\ (last.op = "read" /\ prev.op = "read" /\ last.res = "Ok" /\ prev.res = "Ok"
          /\ last.on = prev.on /\ last.ptr = prev.ptr /\ last.len = prev.len) =>
          last.buf = prev.buf

\* C19 happens: a read returned bytes a write had stored; and a read
\* allocated a fresh page in a Ram that holds written bytes.
C19_Witness ==
    /\ last.op = "read" /\ last.res = "Ok" /\ HitRam(last)
    /\ \E i \in 1..last.len : last.buf[i] # 0

C19_WitnessFresh ==
    /\ last.op = "read" /\ last.res = "Ok" /\ HitRam(last)
    /\ bus # pre
    /\ NonZero(RamWithId(pre, Leaf(last).dev)) # {}

\* base_address <= addr < base_address + size, the sum taken in the
\* integers: a sum of 2^64 or more is above every u64.
InRangeU64(range, addr) ==
    /\ Leq(range.base_address, addr)
    /\ \/ overflowing_add(range.base_address, range.size).overflow
       \/ Less(addr, overflowing_add(range.base_address, range.size).sum)

\* C18 (membership over u64): for every range and every u64 address,
\* contains(addr) returns, without a panic, whether base_address <= addr <
\* base_address + size with the sum not wrapped, ranges that reach or pass
\* 2^64 included.
C18_ContainsNoWrap ==
    probe.op = "contains" =>
        /\ probe.res = "Ok"
        /\ probe.value = InRangeU64(probe.range, probe.addr)

\* Away from 2^64 contains is as claimed: no panic, and the value is
\* base_address <= addr < base_address + size.
ContainsBelowTheTop ==
    (probe.op = "contains"
       /\ ~overflowing_add(probe.range.base_address, probe.range.size).overflow) =>
        /\ probe.res = "Ok"
        /\ probe.value = InRangeU64(probe.range, probe.addr)

====
